---- MODULE Spec2Model ----
(***************************************************************************)
(* Model of SuperUtilityBot (src/bot.py): the in-memory warning store      *)
(* group_settings, the coroutine cmd_warn with its suspension points, the  *)
(* admin check, process start-up, and the dispatch of command updates to   *)
(* the handlers that register_handlers installs.                           *)
(*                                                                         *)
(* cmd_warn is a coroutine.  It runs without suspension from its entry to  *)
(* the first awaited Telegram call (is_admin is awaited but contains no    *)
(* await itself, so it does not yield).  Each awaited Telegram call        *)
(* (reply_text, ban_chat_member) is a suspension point which either        *)
(* returns or raises; a raised exception leaves the handler.               *)
(***************************************************************************)
EXTENDS Integers, Sequences, FiniteSets, TLC

\* ---------------------------------------------------------------- bounds
MaxInvocations == 4   \* calls of cmd_warn in one run
MaxInFlight == 2      \* coroutines of cmd_warn alive at the same time
NumChats == 1
MaxInbox == 2         \* command updates fetched and not yet processed

\* ------------------------------------------------------ program constants
WarnThreshold == 3    \* the literal 3 of "if warnings[user.id] >= 3"

Tasks == 1..MaxInFlight
ChatIds == 1..NumChats

\* The users that send and receive warns: user 1 is listed in ADMIN_IDS of the
\* environment, user 2 is not.
UserIds == {1, 2}
admin_ids == {1}

\* context.args: empty, or a reason.
ArgLists == {<<>>, <<"spam">>}
\* update.message.reply_to_message: absent (<<>>) or a message from a user.
ReplyTargets == {<<>>} \cup {<<u>> : u \in UserIds}

\* The updates with update_id = id that can reach cmd_warn.
Updates(id) == [eventId : {id}, chat : ChatIds, actor : UserIds,
                args : ArgLists, reply_to : ReplyTargets]

VARIABLES
    group_settings,   \* self.group_settings: chat id -> [warnings: user id -> count]
    update,           \* <<>>, or <<u>>: cmd_warn was called with u and has not run yet
    pc,               \* per coroutine of cmd_warn: where it is
    key,              \* per coroutine: <<>> or <<chat id, user id>>, what it warns
    shown,            \* per coroutine: <<>> or <<n>>, the count formatted into warn_msg
    sent,             \* per coroutine: the notices reply_text delivered
    banReq,           \* per coroutine: it called ban_chat_member
    invocations,      \* calls of cmd_warn so far
    warnsRun,         \* (chat, user) -> calls of cmd_warn that passed both checks
    banCalls,         \* (chat, user) -> calls of ban_chat_member Telegram received
    unacked,          \* <<>> or <<u>>: the update the transport may deliver again
    inbox,            \* command updates the Application has fetched
    last              \* <<>> or <<[command, callback]>>: the last update processed

vars == <<group_settings, update, pc, key, shown, sent, banReq, invocations,
          warnsRun, banCalls, unacked, inbox, last>>
appVars == <<inbox, last>>

\* ------------------------------------------------------------ dictionaries
\* dict.get(k, default)
Get(d, k, default) == IF k \in DOMAIN d THEN d[k] ELSE default

\* d[k] = v
Put(d, k, v) == [x \in (DOMAIN d) \cup {k} |-> IF x = k THEN v ELSE d[x]]

\* d.setdefault(k, v), as the dictionary it leaves
SetDefault(d, k, v) == IF k \in DOMAIN d THEN d ELSE Put(d, k, v)

EmptyDict == <<>>

\* The warning count the store holds for (chat, user); 0 when there is no entry.
Count(gs, c, u) ==
    IF c \in DOMAIN gs THEN Get(gs[c].warnings, u, 0) ELSE 0

\* --------------------------------------------------------------- cmd_warn
\* A variant of is_admin that lets every user through.
is_admin_Anyone(user) == user \in UserIds

\* is_admin: "return user.id in self.admin_ids"
is_admin(user) == user \in admin_ids

\* A variant of the usage check that tests only context.args.
HasReasonOnly(u) == u.args # <<>>

\* The negation of "not context.args or not update.message.reply_to_message".
HasReasonAndTarget(u) == u.args # <<>> /\ u.reply_to # <<>>

\* A variant of the increment that misses the stored count (the default of
\* get is always taken).
IncrementedFromDefault(warnings, uid) == 0 + 1

\* "warnings.get(user.id, 0) + 1"
Incremented(warnings, uid) == Get(warnings, uid, 0) + 1

\* A variant of the threshold test with > for >=.
PassedThreshold(n) == n > WarnThreshold

\* "warnings[user.id] >= 3"
ReachedThreshold(n) == n >= WarnThreshold

\* The two statements that write the store:
\*   warnings = self.group_settings.setdefault(chat, {}).setdefault('warnings', {})
\*   warnings[user.id] = warnings.get(user.id, 0) + 1
AddWarning(gs, c, uid) ==
    LET gs1 == SetDefault(gs, c, [warnings |-> EmptyDict])
        w == gs1[c].warnings
    IN  [gs1 EXCEPT ![c] = [warnings |-> Put(w, uid, Incremented(w, uid))]]

NotAdminNotice == [kind |-> "NotAdmin"]
UsageNotice == [kind |-> "Usage"]
WarningNotice(n) == [kind |-> "Warning", count |-> n]
BannedNotice == [kind |-> "Banned"]

\* Positions of the coroutine: suspended at an awaited call, or left (returned,
\* or left by an exception: of ban_chat_member, of reply_text, or of an
\* attribute of None).
Suspended == {"reject_reply", "usage_reply", "warn_reply", "ban_call", "ban_reply"}
Left == {"done", "ban_raised", "reply_raised", "attr_raised"}
InFlight == {t \in Tasks : pc[t] \in Suspended}
HasLeft == {t \in Tasks : pc[t] \in Left}

\* No coroutine runs between the call of a handler and its first await, and a
\* coroutine that has left is discarded before the event loop goes on.
LoopFree == update = <<>> /\ HasLeft = {}

\* The handler is called with update u: the call and the handler's code up to
\* its first await run without any other coroutine in between.
Deliver(u) ==
    /\ LoopFree
    /\ invocations < MaxInvocations
    /\ update' = <<u>>
    /\ invocations' = invocations + 1
    /\ UNCHANGED <<group_settings, pc, key, shown, sent, banReq, warnsRun, banCalls, appVars>>

\* The handler is called with a new update, while other coroutines of it may
\* be suspended.
Call(u) ==
    /\ Deliver(u)
    /\ UNCHANGED unacked

\* The handler is called only when no other coroutine of it is suspended:
\* updates are processed one at a time.
CallSeq(u) ==
    /\ InFlight = {}
    /\ Call(u)

\* As CallSeq, and the transport keeps the update as not yet acknowledged.
CallTracked(u) ==
    /\ InFlight = {}
    /\ Deliver(u)
    /\ unacked' = <<u>>

\* At-least-once delivery: the transport hands the unacknowledged update,
\* unchanged (same update_id), to the handler once more.
Redeliver ==
    /\ InFlight = {}
    /\ unacked # <<>>
    /\ Deliver(unacked[1])
    /\ UNCHANGED unacked

\* cmd_warn from its entry to its first awaited Telegram call: the admin check,
\* the usage check, and (lines 267-281) the increment of the stored count and
\* the formatting of warn_msg, with no await in between.  The new coroutine
\* takes the first free place of Tasks.
Enter(t) ==
    /\ update # <<>>
    /\ pc[t] = "idle"
    /\ \A s \in 1..(t - 1) : pc[s] # "idle"
    /\ update' = <<>>
    /\ LET u == update[1] IN
       \/ /\ ~is_admin(u.actor)
          /\ pc' = [pc EXCEPT ![t] = "reject_reply"]
          /\ UNCHANGED <<group_settings, key, shown, warnsRun>>
       \/ /\ is_admin(u.actor)
          /\ ~HasReasonAndTarget(u)
          /\ pc' = [pc EXCEPT ![t] = "usage_reply"]
          /\ UNCHANGED <<group_settings, key, shown, warnsRun>>
       \/ /\ is_admin(u.actor)
          /\ HasReasonAndTarget(u)
          /\ IF u.reply_to = <<>>
             THEN \* "update.message.reply_to_message.from_user" of None raises
                  /\ pc' = [pc EXCEPT ![t] = "attr_raised"]
                  /\ UNCHANGED <<group_settings, key, shown, warnsRun>>
             ELSE /\ group_settings' = AddWarning(group_settings, u.chat, u.reply_to[1])
                  /\ key' = [key EXCEPT ![t] = <<u.chat, u.reply_to[1]>>]
                  /\ shown' = [shown EXCEPT ![t] =
                                 <<Count(group_settings', u.chat, u.reply_to[1])>>]
                  /\ warnsRun' = [warnsRun EXCEPT ![<<u.chat, u.reply_to[1]>>] = @ + 1]
                  /\ pc' = [pc EXCEPT ![t] = "warn_reply"]
    /\ UNCHANGED <<sent, banReq, invocations, banCalls, unacked, appVars>>

\* reply_text of the rejection or of the usage hint returns; the handler returns.
RejectReplied(t) ==
    /\ LoopFree
    /\ pc[t] \in {"reject_reply", "usage_reply"}
    /\ sent' = [sent EXCEPT ![t] =
                  Append(@, IF pc[t] = "reject_reply" THEN NotAdminNotice ELSE UsageNotice)]
    /\ pc' = [pc EXCEPT ![t] = "done"]
    /\ UNCHANGED <<group_settings, update, key, shown, banReq, invocations, warnsRun, banCalls,
                   unacked, appVars>>

\* reply_text(warn_msg) returns; the handler reads warnings[user.id] again and
\* either calls ban_chat_member or returns.
WarnReplied(t) ==
    /\ LoopFree
    /\ pc[t] = "warn_reply"
    /\ sent' = [sent EXCEPT ![t] = Append(@, WarningNotice(shown[t][1]))]
    /\ IF ReachedThreshold(Count(group_settings, key[t][1], key[t][2]))
       THEN /\ banReq' = [banReq EXCEPT ![t] = TRUE]
            /\ banCalls' = [banCalls EXCEPT ![key[t]] = @ + 1]
            /\ pc' = [pc EXCEPT ![t] = "ban_call"]
       ELSE /\ pc' = [pc EXCEPT ![t] = "done"]
            /\ UNCHANGED <<banReq, banCalls>>
    /\ UNCHANGED <<group_settings, update, key, shown, invocations, warnsRun, unacked, appVars>>

\* ban_chat_member returns; the handler sends the ban notice.
BanReturned(t) ==
    /\ LoopFree
    /\ pc[t] = "ban_call"
    /\ pc' = [pc EXCEPT ![t] = "ban_reply"]
    /\ UNCHANGED <<group_settings, update, key, shown, sent, banReq, invocations, warnsRun, banCalls,
                   unacked, appVars>>

\* reply_text of the ban notice returns; the handler returns.
BanReplied(t) ==
    /\ LoopFree
    /\ pc[t] = "ban_reply"
    /\ sent' = [sent EXCEPT ![t] = Append(@, BannedNotice)]
    /\ pc' = [pc EXCEPT ![t] = "done"]
    /\ UNCHANGED <<group_settings, update, key, shown, banReq, invocations, warnsRun, banCalls,
                   unacked, appVars>>

\* An awaited Telegram call raises; nothing in cmd_warn catches it.
CallRaised(t) ==
    /\ LoopFree
    /\ pc[t] \in Suspended
    /\ pc' = [pc EXCEPT ![t] = IF pc[t] = "ban_call" THEN "ban_raised" ELSE "reply_raised"]
    /\ UNCHANGED <<group_settings, update, key, shown, sent, banReq, invocations, warnsRun, banCalls,
                   unacked, appVars>>

\* The coroutine object of a handler that has left is discarded.
Discard(t) ==
    /\ pc[t] \in Left
    /\ pc' = [pc EXCEPT ![t] = "idle"]
    /\ key' = [key EXCEPT ![t] = <<>>]
    /\ shown' = [shown EXCEPT ![t] = <<>>]
    /\ sent' = [sent EXCEPT ![t] = <<>>]
    /\ banReq' = [banReq EXCEPT ![t] = FALSE]
    /\ UNCHANGED <<group_settings, update, invocations, warnsRun, banCalls, unacked, appVars>>

\* ------------------------------------------------------------ construction
\* __init__: self.group_settings = {} (and no handler is running).
Init ==
    /\ group_settings = EmptyDict
    /\ update = <<>>
    /\ pc = [t \in Tasks |-> "idle"]
    /\ key = [t \in Tasks |-> <<>>]
    /\ shown = [t \in Tasks |-> <<>>]
    /\ sent = [t \in Tasks |-> <<>>]
    /\ banReq = [t \in Tasks |-> FALSE]
    /\ invocations = 0
    /\ warnsRun = [k \in ChatIds \X UserIds |-> 0]
    /\ banCalls = [k \in ChatIds \X UserIds |-> 0]
    /\ unacked = <<>>
    /\ inbox = <<>>
    /\ last = <<>>

Step(t) ==
    \/ Enter(t)
    \/ RejectReplied(t)
    \/ WarnReplied(t)
    \/ BanReturned(t)
    \/ BanReplied(t)
    \/ CallRaised(t)
    \/ Discard(t)

Next ==
    \/ \E u \in Updates(invocations + 1) : Call(u)
    \/ \E t \in Tasks : Step(t)

Spec == Init /\ [][Next]_vars

NextSeq ==
    \/ \E u \in Updates(invocations + 1) : CallSeq(u)
    \/ \E t \in Tasks : Step(t)

SpecSeq == Init /\ [][NextSeq]_vars

NextRedeliver ==
    \/ \E u \in Updates(invocations + 1) : CallTracked(u)
    \/ Redeliver
    \/ \E t \in Tasks : Step(t)

SpecRedeliver == Init /\ [][NextRedeliver]_vars

\* ----------------------------------------------------------------- restart
\* The process stops (a crash, a redeploy) and is started again: __init__ runs,
\* "self.group_settings = {}", and every coroutine of the old process is gone.
Restart ==
    /\ group_settings' = EmptyDict
    /\ update' = <<>>
    /\ pc' = [t \in Tasks |-> "idle"]
    /\ key' = [t \in Tasks |-> <<>>]
    /\ shown' = [t \in Tasks |-> <<>>]
    /\ sent' = [t \in Tasks |-> <<>>]
    /\ banReq' = [t \in Tasks |-> FALSE]
    /\ UNCHANGED <<invocations, warnsRun, banCalls, unacked, appVars>>

NextRestart ==
    \/ \E u \in Updates(invocations + 1) : CallSeq(u)
    \/ \E t \in Tasks : Step(t)
    \/ Restart

SpecRestart == Init /\ [][NextRestart]_vars

\* ---------------------------------------------------------------- dispatch
\* setup_commands_menu: the commands passed to set_my_commands.
MenuCommands == {"start", "help", "ai", "image", "mod", "util", "fun"}

\* register_handlers: the CommandHandlers added to the Application, in order.
Handlers == <<
    [commands |-> {"start"}, callback |-> "cmd_start"],
    [commands |-> {"about"}, callback |-> "cmd_about"],
    [commands |-> {"ai", "ask"}, callback |-> "cmd_ai"],
    [commands |-> {"image", "generate"}, callback |-> "cmd_generate_image"] >>

\* The commands a user can send: the registered ones, the advertised ones, and
\* the moderation commands /warn and /mod.
Commands ==
    MenuCommands \cup {"warn"} \cup UNION {Handlers[i].commands : i \in DOMAIN Handlers}

\* Application.process_update: the first handler whose filter matches the
\* command gets the update; with none, the update is ignored.
CallbackFor(c) ==
    LET matching == {i \in DOMAIN Handlers : c \in Handlers[i].commands}
    IN  IF matching = {} THEN "none"
        ELSE Handlers[CHOOSE i \in matching : \A j \in matching : i <= j].callback

\* run_polling fetches a command update.
Fetch(c) ==
    /\ Len(inbox) < MaxInbox
    /\ inbox' = Append(inbox, c)
    /\ UNCHANGED <<group_settings, update, pc, key, shown, sent, banReq, invocations,
                   warnsRun, banCalls, unacked, last>>

\* The Application processes the oldest fetched update.
Process ==
    /\ inbox # <<>>
    /\ last' = <<[command |-> Head(inbox), callback |-> CallbackFor(Head(inbox))]>>
    /\ inbox' = Tail(inbox)
    /\ UNCHANGED <<group_settings, update, pc, key, shown, sent, banReq, invocations,
                   warnsRun, banCalls, unacked>>

NextApp ==
    \/ \E c \in Commands : Fetch(c)
    \/ Process

SpecApp == Init /\ [][NextApp]_vars

\* ================================================================== claims
Keys == ChatIds \X UserIds
Stored(k) == Count(group_settings, k[1], k[2])
Warning == {t \in Tasks : key[t] # <<>>}

\* A handler is entered in this step: it takes the pending update.
Entering(t) == update # <<>> /\ pc[t] = "idle" /\ pc'[t] # "idle"

C2_ReplayCountsOnce ==
    [][\A t \in Tasks :
          (Entering(t) /\ update[1].eventId < invocations)
              => group_settings' = group_settings]_vars

\* C3: bans are terminal: once the ban of a (chat, user) has been requested,
\* its stored count does not change any more and no further ban of it is
\* requested.
C3_BansAreTerminal ==
    [][\A k \in Keys :
          banCalls[k] >= 1
              => /\ Count(group_settings', k[1], k[2]) = Stored(k)
                 /\ banCalls'[k] = banCalls[k]]_vars

\* C4: a handler entered with the update of an actor who is not in admin_ids
\* takes the rejection path: the step leaves the store, every handler's ban
\* request and the handler's target untouched, and the rejection path ends
\* with the NotAdmin notice (or the exception of its reply_text) without ever
\* touching the store or requesting a ban.
C4_NonAdminRejected ==
    [][\A t \in Tasks :
          /\ (Entering(t) /\ update[1].actor \notin admin_ids)
                => /\ pc'[t] = "reject_reply"
                   /\ group_settings' = group_settings
                   /\ banReq' = banReq
                   /\ banCalls' = banCalls
                   /\ key' = key
          /\ (pc[t] = "reject_reply" /\ pc'[t] # pc[t])
                => /\ pc'[t] \in {"done", "reply_raised"}
                   /\ pc'[t] = "done" => sent'[t] = <<NotAdminNotice>>
                   /\ group_settings' = group_settings
                   /\ banReq' = banReq
                   /\ banCalls' = banCalls]_vars

\* C4 witness: a rejected handler has returned while the store holds a count.
C4_Witness ==
    /\ group_settings # EmptyDict
    /\ \E t \in Tasks : pc[t] = "done" /\ sent[t] = <<NotAdminNotice>>

\* C5: a restart leaves every warning count as it was.
C5_CountsSurviveRestart ==
    [][Restart => \A k \in Keys : Count(group_settings', k[1], k[2]) = Stored(k)]_vars

\* C6: under every interleaving, the stored count of every (chat, user) equals
\* the number of authorized, well-formed warn handlers that ran for it: no
\* increment is lost.
C6_NoLostUpdate ==
    \A k \in Keys : Stored(k) = warnsRun[k]

\* C6 witness: two handlers warning the same user are suspended together.
C6_Witness ==
    \E t1, t2 \in Warning :
        /\ t1 # t2
        /\ key[t1] = key[t2]
        /\ pc[t1] = "warn_reply"
        /\ pc[t2] = "warn_reply"
        /\ Stored(key[t1]) >= 2

\* C7: when ban_chat_member fails, the count stays at the threshold or above
\* and the handler delivers a notice that enforcement is pending.
C7_EnforcementFailureIsDegradedSuccess ==
    \A t \in Tasks :
        pc[t] = "ban_raised" =>
            /\ Stored(key[t]) >= WarnThreshold
            /\ \E i \in DOMAIN sent[t] : sent[t][i].kind = "EnforcementPending"

\* C8: a handler entered with an update that is not a reply changes nothing:
\* the step leaves the store, every ban request and every target untouched;
\* when the actor is an admin the handler takes the usage path, which ends
\* with the Usage notice (or the exception of its reply_text) without ever
\* touching the store or requesting a ban.
C8_NoTargetUsageHint ==
    [][\A t \in Tasks :
          /\ (Entering(t) /\ update[1].reply_to = <<>>)
                => /\ group_settings' = group_settings
                   /\ banReq' = banReq
                   /\ key' = key
                   /\ update[1].actor \in admin_ids => pc'[t] = "usage_reply"
          /\ (pc[t] = "usage_reply" /\ pc'[t] # pc[t])
                => /\ pc'[t] \in {"done", "reply_raised"}
                   /\ pc'[t] = "done" => sent'[t] = <<UsageNotice>>
                   /\ group_settings' = group_settings
                   /\ banReq' = banReq
                   /\ banCalls' = banCalls]_vars

\* C8 witness: a handler on the usage path has returned while the store holds
\* a count.
C8_Witness ==
    /\ group_settings # EmptyDict
    /\ \E t \in Tasks : pc[t] = "done" /\ sent[t] = <<UsageNotice>>

\* C9: every processed /warn update went to cmd_warn, every processed /mod
\* update to cmd_mod_menu, and every processed update of an advertised command
\* to some handler.
C9_CommandsReachTheirHandlers ==
    last # <<>> =>
        /\ last[1].command = "warn" => last[1].callback = "cmd_warn"
        /\ last[1].command = "mod" => last[1].callback = "cmd_mod_menu"
        /\ last[1].command \in MenuCommands => last[1].callback # "none"

\* C10: a handler requests the ban only if the count it formatted into its own
\* notice is >= 3, and while the stored count has not passed the threshold at
\* most one ban of the (chat, user) has been requested.
C10_BanOnlyOnOwnCount ==
    /\ \A t \in Tasks : banReq[t] => shown[t][1] >= WarnThreshold
    /\ \A k \in Keys : Stored(k) <= WarnThreshold => banCalls[k] <= 1

====
